---- MODULE Spec2Model ----
(***************************************************************************)
(* Fast box blur (src/fast_blur.c): main() builds three summed-area tables *)
(* (sums_r, sums_g, sums_b) in two OpenMP "parallel for" loops and then    *)
(* averages every pixel over its clamped window in a third one.            *)
(*                                                                         *)
(* The model follows main() statement by statement.  One action is one     *)
(* iteration of an inner loop body executed by one OpenMP thread; the      *)
(* implicit barrier at the end of each parallel loop is an action of the   *)
(* main thread.  The memory returned by malloc is not initialised by the   *)
(* program: its content is an input of the run.                            *)
(***************************************************************************)
EXTENDS Integers, Sequences, FiniteSets, TLC

\* ------------------------------------------------------------------ bounds
MaxW == 5          \* image widths 1..MaxW
MaxH == 5          \* image heights 1..MaxH
MaxR == 2          \* radius arguments "0".."MaxR"
MaxInput == 1      \* input files and heap contents 0..MaxInput
MaxThreads == 2    \* OpenMP team sizes 1..MaxThreads
BigW == 4000       \* width of the large image
BigH == 3000       \* height of the large image

\* ------------------------------------------------------- program constants
Chunk == 4         \* schedule(static, 4)
NumColors == 3     \* for (color = 0; color < 3; color++)
UCharMax == 255    \* unsigned char
IntBits == 32      \* int
FloatBits == 24    \* significand of float

\* INT_MAX, written so that no intermediate value exceeds it
IntMax == (2^(IntBits - 2) - 1) + 2^(IntBits - 2)

\* ----------------------------------------------------------------- helpers
RECURSIVE Log2(_)
\* floor(log2(n)) for n >= 1
Log2(n) == IF n < 2 THEN 0 ELSE 1 + Log2(n \div 2)

Abs(n) == IF n < 0 THEN -n ELSE n

\* #define min(X, Y) (((X) < (Y)) ? (X) : (Y))
min(X, Y) == IF X < Y THEN X ELSE Y

\* #define max(X, Y) (((X) < (Y)) ? (Y) : (X))
max(X, Y) == IF X < Y THEN Y ELSE X

\* int idx(int row, int col, int width, int g)
idx(row, col, width, g) == (row * width + col) * g

\* ---------------------------------------------------------------- atoi
\* A command-line argument is a sequence of characters; argv[n] is a null
\* pointer when n = argc.
DigitChars == <<"0", "1", "2", "3", "4", "5", "6", "7", "8", "9">>
IsDigit(c) == \E d \in 1..Len(DigitChars) : DigitChars[d] = c
DigitVal(c) == (CHOOSE d \in 1..Len(DigitChars) : DigitChars[d] = c) - 1

RECURSIVE AtoiDigits(_, _, _)
\* the digits of s from position p on, accumulated onto acc, up to the first
\* character that is no digit
AtoiDigits(s, p, acc) ==
    IF p > Len(s) \/ ~IsDigit(s[p]) THEN acc
    ELSE AtoiDigits(s, p + 1, 10 * acc + DigitVal(s[p]))

RECURSIVE SkipSpace(_, _)
SkipSpace(s, p) == IF p <= Len(s) /\ s[p] = " " THEN SkipSpace(s, p + 1) ELSE p

\* atoi(s): optional white space, optional sign, decimal digits; 0 when no
\* digit follows
atoi(s) ==
    LET p == SkipSpace(s, 1)
    IN  IF p <= Len(s) /\ s[p] = "-" THEN -AtoiDigits(s, p + 1, 0)
        ELSE IF p <= Len(s) /\ s[p] = "+" THEN AtoiDigits(s, p + 1, 0)
        ELSE AtoiDigits(s, p, 0)

\* ------------------------------------------------------------- inputs
\* The radius arguments tried on every input: "0".."MaxR" and a negative one.
RadiusArgs ==
    {<<DigitChars[n + 1]>> : n \in 0..MaxR} \cup {<<"-", "1">>}

\* A radius argument that is not a number.
MalformedArg == <<"x">>

\* The channel value of pixel (x, y) of input image number kind: 0 is the
\* uniform image of 9s, 1 the gradient 10*x + y, the others differ from
\* channel to channel.
InputPixel(kind, x, y, chan) ==
    IF kind = 0 THEN 9
    ELSE IF kind = 1 THEN 10 * x + y
    ELSE (kind * 37 + 101 * x + 57 * y + 83 * chan + 29 * x * y + 200) % (UCharMax + 1)

\* The word found at index k of the block that malloc returned for table
\* chan (and, for k outside the block, next to it), for heap content fill:
\* 0 is zeroed memory.
HeapWord(fill, chan, k) ==
    IF fill = 0 THEN 0 ELSE ((fill * (5 * k + 3 * chan + 1)) % 11) - 4

\* ------------------------------------------------- float and unsigned char
\* (float)n for n >= 0: the nearest value with a FloatBits-bit significand,
\* ties to even.
RoundToFloat(n) ==
    IF n < 2^FloatBits THEN n
    ELSE LET P == 2^(Log2(n) - (FloatBits - 1))
             m == n \div P
             r == n % P
             up == IF 2 * r > P \/ (2 * r = P /\ m % 2 = 1) THEN 1 ELSE 0
         IN  (m + up) * P

\* The integral part of the float quotient s / n (round to nearest, ties to
\* even) of two float values s >= 0 and n >= 1.
FloatQuotient(s, n) ==
    LET k == s \div n
        rem == s % n
    IN  IF rem = 0 THEN k
        ELSE IF k >= 2^(FloatBits - 1)
        THEN \* the floats around the quotient are integers, P apart
             LET P == 2^(Log2(k) - (FloatBits - 1))
                 D == n * P
                 m == s \div D
                 r == s % D
                 up == IF 2 * r > D \/ (2 * r = D /\ m % 2 = 1) THEN 1 ELSE 0
             IN  (m + up) * P
        ELSE \* the quotient rounds up to k + 1 when it is within half a unit
             \* in the last place of it
             LET E == IF k = 0 THEN -1 ELSE Log2(k)
                 P == 2^(FloatBits - E)
             IN  IF n - rem <= n \div P THEN k + 1 ELSE k

\* (float)(sum) / pixels, truncated toward zero as the conversion to an
\* integer type does; pixels /= 0.
FloatDivTrunc(sum, pix) ==
    LET q == FloatQuotient(RoundToFloat(Abs(sum)), RoundToFloat(Abs(pix)))
    IN  IF (sum < 0) = (pix < 0) THEN q ELSE -q

\* The builds' conversions of an integral value outside 0..UCharMax to
\* unsigned char (undefined in C): "wrap" keeps the low byte (cvttss2si and a
\* byte move), "sat" saturates (fcvtzu).
Conversions == {"wrap", "sat"}

ToUChar(q, cvt) ==
    IF 0 <= q /\ q <= UCharMax THEN q
    ELSE IF cvt = "wrap" THEN q % (UCharMax + 1)
    ELSE IF q < 0 THEN 0 ELSE UCharMax

\* ------------------------------------------------------------------ state
VARIABLES
    argc,       \* number of entries of argv, the program name included
    argv1,      \* the characters of argv[1], the radius argument (argc >= 2)
    img_in,     \* the image of the input file: [width, height, data]
    nthreads,   \* size of the OpenMP team
    heap,       \* content of the memory malloc hands out (see HeapWord)
    cvt,        \* the build's out-of-range float conversion, once it is used
    outside,    \* whether the memory next to the tables is mapped, once it is read
    pc,         \* where main() is
    R,          \* const int R
    img_out,    \* Image *img_out: [width, height, data]
    sums_r,     \* int *sums_r
    sums_g,     \* int *sums_g
    sums_b,     \* int *sums_b
    it,         \* per thread, its place in the current parallel loop
    win,        \* per pixel, the window and pixel count the averaging used
    file_out,   \* the image written by ImageWrite, NoFile before
    wr1,        \* per table cell, the threads that wrote it in the first loop nest
    wr2,        \* per table cell, the threads that wrote it in the second loop nest
    uninit,     \* the table cells read before anything was assigned to them
    oob,        \* the table and pixel coordinates used outside the image
    box,        \* per pixel, the d - (b + c - a) of each color
    big_pc,     \* large image: the loop nest its walk is in
    big_k,      \* large image: the column (phase 1) or row (phase 2) reached
    big_cell,   \* large image: the table cell written last
    big_row,    \* large image: sums[idx(row, W - 1, W, 1)] after phase 1
    big_wrapped \* large image: an int addition has left the range of int

mainvars == <<argc, argv1, img_in, nthreads, heap, cvt, outside, pc, R, img_out,
              sums_r, sums_g, sums_b, it, win, file_out, wr1, wr2, uninit, oob, box>>

bigvars == <<big_pc, big_k, big_cell, big_row, big_wrapped>>

vars == <<mainvars, bigvars>>

\* const int H = img_in->height;
H == img_in.height

\* const int W = img_in->width;
W == img_in.width

Colors == 0..(NumColors - 1)
Threads == 0..(nthreads - 1)
Cells == 0..(H * W - 1)
Pixels == {<<x, y, c>> \in (0..(W - 1)) \X (0..(H - 1)) \X Colors : TRUE}

\* A channel value of img_out that ImageSetPixel has not set yet.
Unset == -1

\* unsigned char ImageGetPixel(Image *image, int x, int y, int chan)
ImageGetPixel(image, x, y, chan) == image.data[<<x, y, chan>>]

\* void ImageSetPixel(Image *image, int x, int y, int chan, unsigned char val)
ImageSetPixel(image, x, y, chan, val) ==
    [image EXCEPT !.data[<<x, y, chan>>] = val]

\* Image *ImageCreate(int width, int height)
ImageCreate(width, height) ==
    [width |-> width, height |-> height,
     data |-> [p \in (0..(width - 1)) \X (0..(height - 1)) \X Colors |-> Unset]]

\* Input image number kind with the given dimensions.
InputImage(kind, width, height) ==
    [width |-> width, height |-> height,
     data |-> [p \in (0..(width - 1)) \X (0..(height - 1)) \X Colors
                 |-> InputPixel(kind, p[1], p[2], p[3])]]

\* malloc(sizeof(int) * H * W): a block of H * W ints with whatever the heap
\* holds there.
malloc(chan) == [k \in Cells |-> HeapWord(heap, chan, k)]

NoTable == <<>>
NoImage == [width |-> 0, height |-> 0, data |-> <<>>]
NoFile == [width |-> 0, height |-> 0, data |-> <<>>]
Unknown == "unknown"

\* The walk over the large image is not part of these runs.
BigIdle ==
    /\ big_pc = "idle"
    /\ big_k = 0
    /\ big_cell = 0
    /\ big_row = 0
    /\ big_wrapped = FALSE

\* The state before main() runs, for a command line of a entries with radius
\* argument arg, input file image, a team of n threads and heap content fill.
InitWith(a, arg, image, n, fill) ==
    /\ argc = a
    /\ argv1 = arg
    /\ img_in = image
    /\ nthreads = n
    /\ heap = fill
    /\ cvt = Unknown
    /\ outside = Unknown
    /\ pc = "start"
    /\ R = 0
    /\ img_out = NoImage
    /\ sums_r = NoTable
    /\ sums_g = NoTable
    /\ sums_b = NoTable
    /\ it = <<>>
    /\ win = <<>>
    /\ file_out = NoFile
    /\ wr1 = <<>>
    /\ wr2 = <<>>
    /\ uninit = {}
    /\ oob = {}
    /\ box = <<>>

\* Complete invocations run on every input: input 0 is the uniform image in
\* zeroed memory, input 1 the gradient in used memory, and so on.  An
\* incomplete command line and a malformed radius are tried on one image.
Init ==
    /\ BigIdle
    /\ \/ \E arg \in RadiusArgs, input \in 0..MaxInput, w \in 1..MaxW, h \in 1..MaxH,
             n \in 1..MaxThreads :
               InitWith(4, arg, InputImage(input, w, h), n, input)
       \/ \E a \in 1..3 :
               InitWith(a, IF a = 1 THEN <<>> ELSE <<"1">>, InputImage(1, 2, 2), 1, 0)
       \/ InitWith(4, MalformedArg, InputImage(1, 2, 2), 1, 0)

\* ------------------------------------------------- OpenMP static schedule
\* A parallel region without work sharing: every thread runs every iteration.
OwnedByAll(t, i) == TRUE

\* schedule(static, 4): the iterations are cut into chunks of Chunk, dealt to
\* the threads of the team in turn.
Owned(t, i) == (i \div Chunk) % nthreads = t

SetMin(S) == CHOOSE m \in S : \A n \in S : m <= n

\* The first iteration of 0..n-1 that thread t runs, n if none.
FirstOwned(t, n) == SetMin({i \in 0..(n - 1) : Owned(t, i)} \cup {n})

\* The next iteration of the loop, whoever owns it.
NextIteration(t, i, n) == min(i + 1, n)

\* The iteration thread t runs after iteration i, n if none.
NextOwned(t, i, n) == SetMin({k \in (i + 1)..(n - 1) : Owned(t, k)} \cup {n})

\* The threads' places on entry to a parallel loop of n iterations whose inner
\* loop runs from j0 to jn - 1.
Fork(n, j0, jn) ==
    [t \in Threads |-> [i |-> IF j0 < jn THEN FirstOwned(t, n) ELSE n, j |-> j0]]

\* An inner loop that is left after its first iteration.
AdvanceToNextOuter(t, p, n, j0, jn) == [i |-> NextOwned(t, p.i, n), j |-> j0]

\* The place of thread t after the inner iteration at place p.
Advance(t, p, n, j0, jn) ==
    IF p.j + 1 < jn THEN [i |-> p.i, j |-> p.j + 1]
    ELSE [i |-> NextOwned(t, p.i, n), j |-> j0]

\* A barrier that opens as soon as one thread has reached it.
SomeAtBarrier(n) == \E t \in Threads : it[t].i >= n

\* Every thread has reached the implicit barrier of a loop of n iterations.
AllAtBarrier(n) == \A t \in Threads : it[t].i >= n

\* --------------------------------------------------------------- main()
\* int *sums_color = color == 0 ? sums_r : color == 1 ? sums_g : sums_b;
SumsColor(color) == IF color = 0 THEN sums_r ELSE IF color = 1 THEN sums_g ELSE sums_b

\* malloc(sizeof(int) * H * W) for color chan: the block, or a null pointer.
MallocResults(chan) == {malloc(chan), NoTable}

\* Inside one loop body the statements for red, green and blue follow each
\* other: the one for color is reached and survives when no table up to it
\* is a null pointer (a null pointer is never tested; its use kills the
\* process).
Alive(color) == \A c \in 0..color : SumsColor(c) # NoTable

\* 0 <= row < H and 0 <= col < W.
InImage(row, col) == row \in 0..(H - 1) /\ col \in 0..(W - 1)

\* The cell has been assigned by one of the two table-building loop nests.
Assigned(k) == wr1[k] # <<>> \/ wr2[k] # <<>>

\* The cells read before any assignment, once a loop body has read the table
\* at the coordinates reads.
Unwritten(reads) ==
    uninit \cup {idx(p[1], p[2], W, 1) :
                   p \in {q \in reads : InImage(q[1], q[2])
                                         /\ ~Assigned(idx(q[1], q[2], W, 1))}}

\* The coordinates used outside the image, once a loop body has used coords
\* as table or pixel coordinates.
OutOfImage(coords) == oob \cup {p \in coords : ~InImage(p[1], p[2])}

\* Lines 54-68: the arguments, ImageRead, ImageCreate and the three mallocs.
\* atoi of a null pointer ends the process with a signal; ImageRead of a
\* null file name is a fatal error of the image library.
Setup ==
    /\ pc = "start"
    /\ IF argc < 2
       THEN /\ pc' = "crashed"
            /\ UNCHANGED <<R, img_out, sums_r, sums_g, sums_b, it, wr1, wr2>>
       ELSE IF argc < 3
       THEN /\ pc' = "fatal"
            /\ R' = atoi(argv1)
            /\ UNCHANGED <<img_out, sums_r, sums_g, sums_b, it, wr1, wr2>>
       ELSE /\ pc' = "phase1"
            /\ R' = atoi(argv1)
            /\ img_out' = ImageCreate(W, H)
            /\ sums_r' \in MallocResults(0)
            /\ sums_g' \in MallocResults(1)
            /\ sums_b' \in MallocResults(2)
            /\ it' = Fork(H, 1, W)
            /\ wr1' = [k \in Cells |-> <<>>]
            /\ wr2' = [k \in Cells |-> <<>>]
    /\ UNCHANGED <<argc, argv1, img_in, nthreads, heap, cvt, outside, win, file_out,
                   uninit, oob, box>>
    /\ UNCHANGED bigvars

\* Lines 80-85: the body of the first loop nest at (row, col).
RowSum(sums, chan, row, col) ==
    [sums EXCEPT ![idx(row, col, W, 1)] =
        ImageGetPixel(img_in, col, row, chan) + sums[idx(row, col - 1, W, 1)]]

\* The table coordinates that body reads and writes.
Phase1Reads(row, col) == {<<row, col - 1>>}

Phase1Writes(row, col) == {<<row, col>>}

\* Lines 77-87, one inner iteration by thread t.
Phase1Step(t) ==
    /\ pc = "phase1"
    /\ it[t].i < H
    /\ LET row == it[t].i
           col == it[t].j
       IN  /\ sums_r' = IF Alive(0) THEN RowSum(sums_r, 0, row, col) ELSE sums_r
           /\ sums_g' = IF Alive(1) THEN RowSum(sums_g, 1, row, col) ELSE sums_g
           /\ sums_b' = IF Alive(2) THEN RowSum(sums_b, 2, row, col) ELSE sums_b
           /\ IF Alive(0)
              THEN /\ wr1' = [wr1 EXCEPT ![idx(row, col, W, 1)] = Append(@, t)]
                   /\ uninit' = Unwritten(Phase1Reads(row, col))
                   /\ oob' = OutOfImage(Phase1Reads(row, col) \cup Phase1Writes(row, col))
              ELSE UNCHANGED <<wr1, uninit, oob>>
    /\ IF Alive(2)
       THEN /\ it' = [it EXCEPT ![t] = Advance(t, it[t], H, 1, W)]
            /\ pc' = pc
       ELSE /\ pc' = "crashed"
            /\ it' = it
    /\ UNCHANGED <<argc, argv1, img_in, nthreads, heap, cvt, outside, R,
                   img_out, win, file_out, wr2, box>>
    /\ UNCHANGED bigvars

\* The barrier that ends the first parallel loop; the second one starts.
Phase1End ==
    /\ pc = "phase1"
    /\ AllAtBarrier(H)
    /\ pc' = "phase2"
    /\ it' = Fork(W, 1, H)
    /\ UNCHANGED <<argc, argv1, img_in, nthreads, heap, cvt, outside, R, img_out,
                   sums_r, sums_g, sums_b, win, file_out, wr1, wr2, uninit, oob, box>>
    /\ UNCHANGED bigvars

\* Lines 102-104: the body of the second loop nest at (row, col).
ColSum(sums, row, col) ==
    [sums EXCEPT ![idx(row, col, W, 1)] = @ + sums[idx(row - 1, col, W, 1)]]

\* The table coordinates that body reads and writes.
Phase2Reads(row, col) == {<<row, col>>, <<row - 1, col>>}

Phase2Writes(row, col) == {<<row, col>>}

\* Lines 99-106, one inner iteration by thread t.
Phase2Step(t) ==
    /\ pc = "phase2"
    /\ it[t].i < W
    /\ LET col == it[t].i
           row == it[t].j
       IN  /\ sums_r' = IF Alive(0) THEN ColSum(sums_r, row, col) ELSE sums_r
           /\ sums_g' = IF Alive(1) THEN ColSum(sums_g, row, col) ELSE sums_g
           /\ sums_b' = IF Alive(2) THEN ColSum(sums_b, row, col) ELSE sums_b
           /\ IF Alive(0)
              THEN /\ wr2' = [wr2 EXCEPT ![idx(row, col, W, 1)] = Append(@, t)]
                   /\ uninit' = Unwritten(Phase2Reads(row, col))
                   /\ oob' = OutOfImage(Phase2Reads(row, col) \cup Phase2Writes(row, col))
              ELSE UNCHANGED <<wr2, uninit, oob>>
    /\ IF Alive(2)
       THEN /\ it' = [it EXCEPT ![t] = Advance(t, it[t], W, 1, H)]
            /\ pc' = pc
       ELSE /\ pc' = "crashed"
            /\ it' = it
    /\ UNCHANGED <<argc, argv1, img_in, nthreads, heap, cvt, outside, R,
                   img_out, win, file_out, wr1, box>>
    /\ UNCHANGED bigvars

\* The barrier that ends the second parallel loop; the third one starts.
Phase2End ==
    /\ pc = "phase2"
    /\ AllAtBarrier(W)
    /\ pc' = "phase3"
    /\ it' = Fork(H, 0, W)
    /\ UNCHANGED <<argc, argv1, img_in, nthreads, heap, cvt, outside, R, img_out,
                   sums_r, sums_g, sums_b, win, file_out, wr1, wr2, uninit, oob, box>>
    /\ UNCHANGED bigvars

\* ------------------------------------------------------- averaging stage
\* int x_min = max(col - R, 0);
x_min(col) == max(col - R, 0)

\* x_max clamped one column too far to the right.
x_max_past_edge(col) == min(col + R, W)

\* int x_max = min(col + R, W - 1);
x_max(col) == min(col + R, W - 1)

\* int y_min = max(row - R, 0);
y_min(row) == max(row - R, 0)

\* y_max clamped one row too far down.
y_max_past_edge(row) == min(row + R, H)

\* int y_max = min(row + R, H - 1);
y_max(row) == min(row + R, H - 1)

\* int pixels = (x_max - (x_min - 1)) * (y_max - (y_min - 1));
pixels(row, col) ==
    (x_max(col) - (x_min(col) - 1)) * (y_max(row) - (y_min(row) - 1))

\* The table coordinates that lines 150-159 read for the pixel at (row, col).
CornerCoords(row, col) ==
    (IF y_min(row) < 1 \/ x_min(col) < 1 THEN {}
     ELSE {<<y_min(row) - 1, x_min(col) - 1>>})
    \cup (IF y_min(row) < 1 THEN {} ELSE {<<y_min(row) - 1, x_max(col)>>})
    \cup (IF x_min(col) < 1 THEN {} ELSE {<<y_max(row), x_min(col) - 1>>})
    \cup {<<y_max(row), x_max(col)>>}

\* The table indices of those reads.
CornerReads(row, col) == {idx(p[1], p[2], W, 1) : p \in CornerCoords(row, col)}

\* sums_color[k]: a read outside the block finds what the heap holds there.
Load(sums_color, color, k) ==
    IF k \in Cells THEN sums_color[k] ELSE HeapWord(heap, color, k)

\* The inclusion-exclusion with the corner a left out.
BoxSumWithoutA(sums_color, color, row, col) ==
    LET b == IF y_min(row) < 1 THEN 0
             ELSE Load(sums_color, color, idx(y_min(row) - 1, x_max(col), W, 1))
        c == IF x_min(col) < 1 THEN 0
             ELSE Load(sums_color, color, idx(y_max(row), x_min(col) - 1, W, 1))
        d == Load(sums_color, color, idx(y_max(row), x_max(col), W, 1))
    IN  d - (b + c)

\* Lines 150-162: d - (b + c - a) for the pixel at (row, col).
BoxSum(sums_color, color, row, col) ==
    LET a == IF y_min(row) < 1 \/ x_min(col) < 1 THEN 0
             ELSE Load(sums_color, color, idx(y_min(row) - 1, x_min(col) - 1, W, 1))
        b == IF y_min(row) < 1 THEN 0
             ELSE Load(sums_color, color, idx(y_min(row) - 1, x_max(col), W, 1))
        c == IF x_min(col) < 1 THEN 0
             ELSE Load(sums_color, color, idx(y_max(row), x_min(col) - 1, W, 1))
        d == Load(sums_color, color, idx(y_max(row), x_max(col), W, 1))
    IN  d - (b + c - a)

\* (float)(d - (b + c - a)) / pixels, before its conversion to unsigned char.
Quotient(color, row, col) ==
    FloatDivTrunc(BoxSum(SumsColor(color), color, row, col), pixels(row, col))

\* What a read outside the tables may find: an unmapped page (the process is
\* killed) or mapped memory; once found, it stays what it is.
OutsideChoices == IF outside = Unknown THEN {"unmapped", "mapped"} ELSE {outside}

CvtChoices == IF cvt = Unknown THEN Conversions ELSE {cvt}

\* The window and pixel count of the pixel at (row, col).
Window(row, col) ==
    [x_min |-> x_min(col), x_max |-> x_max(col),
     y_min |-> y_min(row), y_max |-> y_max(row), pixels |-> pixels(row, col)]

\* Lines 109-168, one inner iteration (all three colors) by thread t.
BlurStep(t) ==
    /\ pc = "phase3"
    /\ it[t].i < H
    /\ LET row == it[t].i
           col == it[t].j
           inside == CornerReads(row, col) \subseteq Cells
       IN  \E o \in IF inside \/ ~Alive(0) THEN {outside} ELSE OutsideChoices :
             /\ outside' = o
             /\ IF ~Alive(0) \/ (o = "unmapped" /\ ~inside)
                THEN /\ pc' = "crashed"
                     /\ UNCHANGED <<cvt, img_out, win, it, uninit, oob, box>>
                ELSE LET sum == [color \in Colors |->
                                   IF Alive(color)
                                   THEN BoxSum(SumsColor(color), color, row, col) ELSE 0]
                         q == [color \in Colors |->
                                 IF Alive(color) THEN Quotient(color, row, col) ELSE 0]
                         inrange == \A color \in Colors : q[color] \in 0..UCharMax
                         Store(image, color, v) ==
                             IF Alive(color)
                             THEN ImageSetPixel(image, col, row, color, ToUChar(q[color], v))
                             ELSE image
                     IN  \E v \in IF inrange THEN {cvt} ELSE CvtChoices :
                           /\ cvt' = v
                           /\ img_out' = Store(Store(Store(img_out, 0, v), 1, v), 2, v)
                           /\ uninit' = Unwritten(CornerCoords(row, col))
                           /\ oob' = OutOfImage(CornerCoords(row, col) \cup {<<row, col>>})
                           /\ IF Alive(2)
                              THEN /\ win' = (<<row, col>> :> Window(row, col)) @@ win
                                   /\ box' = (<<row, col>> :> sum) @@ box
                                   /\ it' = [it EXCEPT ![t] = Advance(t, it[t], H, 0, W)]
                                   /\ pc' = pc
                              ELSE /\ pc' = "crashed"
                                   /\ UNCHANGED <<win, box, it>>
    /\ UNCHANGED <<argc, argv1, img_in, nthreads, heap, R, sums_r, sums_g, sums_b,
                   file_out, wr1, wr2>>
    /\ UNCHANGED bigvars

\* The barrier that ends the third parallel loop.
BlurEnd ==
    /\ pc = "phase3"
    /\ AllAtBarrier(H)
    /\ pc' = "write"
    /\ UNCHANGED <<argc, argv1, img_in, nthreads, heap, cvt, outside, R, img_out,
                   sums_r, sums_g, sums_b, it, win, file_out, wr1, wr2, uninit, oob, box>>
    /\ UNCHANGED bigvars

\* Lines 170-176: ImageWrite, the three frees and return 0.  ImageWrite of a
\* null file name is a fatal error of the image library.
Finish ==
    /\ pc = "write"
    /\ IF argc < 4
       THEN /\ pc' = "fatal"
            /\ UNCHANGED file_out
       ELSE /\ pc' = "done"
            /\ file_out' = img_out
    /\ UNCHANGED <<argc, argv1, img_in, nthreads, heap, cvt, outside, R, img_out,
                   sums_r, sums_g, sums_b, it, win, wr1, wr2, uninit, oob, box>>
    /\ UNCHANGED bigvars

Next ==
    \/ Setup
    \/ \E t \in Threads : Phase1Step(t)
    \/ Phase1End
    \/ \E t \in Threads : Phase2Step(t)
    \/ Phase2End
    \/ \E t \in Threads : BlurStep(t)
    \/ BlurEnd
    \/ Finish

Spec == Init /\ [][Next]_vars

\* ------------------------------------------------------- the large image
\* The two table-building loop nests on an image of BigW x BigH pixels whose
\* channel values are all UCharMax, in zeroed memory.  All rows of such an
\* image are alike, so the walk follows one row through the first loop nest
\* (lines 79-86) and then the last column through the second (lines 101-105);
\* big_cell is the cell the walk wrote last.

\* a + b leaves the range of int.
Overflows(a, b) ==
    \/ b > 0 /\ a > IntMax - b
    \/ b < 0 /\ a < (-IntMax - 1) - b

\* a + b in int: on overflow (undefined in C) the sum wraps around.
IntAdd(a, b) ==
    IF b > 0 /\ a > IntMax - b THEN (a - IntMax - 1) + (b - IntMax - 1)
    ELSE IF b < 0 /\ a < (-IntMax - 1) - b THEN (a + IntMax + 1) + (b + IntMax + 1)
    ELSE a + b

\* The small runs are not part of the walk over the large image.
MainIdle == InitWith(4, <<"0">>, InputImage(0, 1, 1), 1, 0)

\* On entry to the first loop nest: col = 1, and sums[idx(row, 0, W, 1)] is
\* what malloc left there.
BigInit ==
    /\ MainIdle
    /\ big_pc = "phase1"
    /\ big_k = 1
    /\ big_cell = HeapWord(0, 0, 0)
    /\ big_row = 0
    /\ big_wrapped = FALSE

\* Lines 80-81 at column big_k: sums[idx(row, col)] = pixel + sums[idx(row, col - 1)].
BigPhase1Step ==
    /\ big_pc = "phase1"
    /\ big_k < BigW
    /\ big_cell' = IntAdd(UCharMax, big_cell)
    /\ big_wrapped' = (big_wrapped \/ Overflows(UCharMax, big_cell))
    /\ big_k' = big_k + 1
    /\ UNCHANGED <<big_pc, big_row>>
    /\ UNCHANGED mainvars

\* The first loop nest is over: every row ends in the value big_cell, and the
\* second loop nest starts at row 1 of the last column.
BigPhase1End ==
    /\ big_pc = "phase1"
    /\ big_k >= BigW
    /\ big_pc' = "phase2"
    /\ big_row' = big_cell
    /\ big_k' = 1
    /\ UNCHANGED <<big_cell, big_wrapped>>
    /\ UNCHANGED mainvars

\* Line 102 at row big_k of the last column:
\* sums[idx(row, col)] += sums[idx(row - 1, col)].
BigPhase2Step ==
    /\ big_pc = "phase2"
    /\ big_k < BigH
    /\ big_cell' = IntAdd(big_row, big_cell)
    /\ big_wrapped' = (big_wrapped \/ Overflows(big_row, big_cell))
    /\ big_k' = big_k + 1
    /\ UNCHANGED <<big_pc, big_row>>
    /\ UNCHANGED mainvars

\* The second loop nest is over.
BigPhase2End ==
    /\ big_pc = "phase2"
    /\ big_k >= BigH
    /\ big_pc' = "done"
    /\ UNCHANGED <<big_k, big_cell, big_row, big_wrapped>>
    /\ UNCHANGED mainvars

NextBig ==
    \/ BigPhase1Step
    \/ BigPhase1End
    \/ BigPhase2Step
    \/ BigPhase2End

SpecBig == BigInit /\ [][NextBig]_vars

\* ---------------------------------------------------- reference values
RECURSIVE SumOf(_, _)
\* The direct sum of channel chan of the input image over the pixels (x, y)
\* of S.
SumOf(S, chan) ==
    IF S = {} THEN 0
    ELSE LET p == CHOOSE q \in S : TRUE
         IN  ImageGetPixel(img_in, p[1], p[2], chan) + SumOf(S \ {p}, chan)

\* The pixels (x, y) of the image.
Image == (0..(W - 1)) \X (0..(H - 1))

\* The pixels of the image within distance R of (col, row) in both
\* directions: the square of side 2R+1 centred on the pixel, clamped.
ClampedSquare(row, col) ==
    {p \in Image : Abs(p[1] - col) <= R /\ Abs(p[2] - row) <= R}

\* The pixels of the rectangle from the origin to (col, row), inclusive.
Prefix(row, col) == {p \in Image : p[1] <= col /\ p[2] <= row}

\* floor(S / N) of the direct sum S over the clamped window and its size N.
BruteAverage(chan, row, col) ==
    SumOf(ClampedSquare(row, col), chan) \div Cardinality(ClampedSquare(row, col))

TablesBuilt == Alive(2) /\ pc \in {"phase3", "write", "done"}

\* ------------------------------------------------------------------ claims
\* C1 (brute-force equivalence): for every radius R >= 0, every pixel and every
\* channel, the value written to the output image is floor(S / N), S the
\* direct sum of the input over the clamped window and N its pixel count.
C1_BruteForceEquivalence ==
    (pc = "done" /\ R >= 0) =>
        \A p \in Pixels : file_out.data[p] = BruteAverage(p[3], p[2], p[1])

\* C2 (identity at R = 0): with radius 0 the output pixel at every (x, y,
\* channel), column 0 and row 0 included, equals the input pixel.
C2_IdentityAtRadiusZero ==
    (pc = "done" /\ R = 0) =>
        \A p \in Pixels : file_out.data[p] = ImageGetPixel(img_in, p[1], p[2], p[3])

\* C3 (summed-area table): once both phases are complete, every cell (r, c) of
\* every channel's table holds the sum of the input over all r' <= r, c' <= c.
C3_SummedAreaTable ==
    TablesBuilt =>
        \A chan \in Colors : \A p \in Image :
            SumsColor(chan)[idx(p[2], p[1], W, 1)] = SumOf(Prefix(p[2], p[1]), chan)

\* C4 (total sum): after Phase 2 the cell at (H-1, W-1) of each channel's table
\* is the sum of that channel over the whole image.
C4_TotalSum ==
    TablesBuilt =>
        \A chan \in Colors :
            SumsColor(chan)[idx(H - 1, W - 1, W, 1)] = SumOf(Image, chan)

\* C5 (saturation): for R >= max(W, H) every output pixel of a channel is the
\* truncated global average floor(sum of the channel / (W * H)).
C5_Saturation ==
    (pc = "done" /\ R >= max(W, H)) =>
        \A p \in Pixels : file_out.data[p] = SumOf(Image, p[3]) \div (W * H)

\* The window of the pixel at (row, col) as a set of pixels (x, y).
WindowPixels(w) == {p \in Image : /\ w.x_min <= p[1] /\ p[1] <= w.x_max
                                  /\ w.y_min <= p[2] /\ p[2] <= w.y_max}

\* C6 (boundary clamp): for R >= 0 the window the averaging stage used for the
\* pixel at (row, col) is x in [max(col-R,0), min(col+R,W-1)], y in
\* [max(row-R,0), min(row+R,H-1)]; it lies inside the image, contains the
\* pixel, and the divisor is (x_max-x_min+1)*(y_max-y_min+1) >= 1; when the
\* stage is over, every window is the square of side 2R+1 around its pixel cut
\* to the image, and its divisor the number of pixels of that square.
C6_BoundaryClamp ==
    R >= 0 =>
        \A k \in DOMAIN win :
            LET row == k[1]
                col == k[2]
                w == win[k]
            IN  /\ w.x_min = (IF col - R > 0 THEN col - R ELSE 0)
                /\ w.x_max = (IF col + R < W - 1 THEN col + R ELSE W - 1)
                /\ w.y_min = (IF row - R > 0 THEN row - R ELSE 0)
                /\ w.y_max = (IF row + R < H - 1 THEN row + R ELSE H - 1)
                /\ 0 <= w.x_min /\ w.x_min <= col /\ col <= w.x_max /\ w.x_max <= W - 1
                /\ 0 <= w.y_min /\ w.y_min <= row /\ row <= w.y_max /\ w.y_max <= H - 1
                /\ w.pixels = (w.x_max - w.x_min + 1) * (w.y_max - w.y_min + 1)
                /\ w.pixels >= 1
                /\ pc = "write" =>
                       /\ WindowPixels(w) = ClampedSquare(row, col)
                       /\ w.pixels = Cardinality(ClampedSquare(row, col))

\* The 4x4 gradient image with R = 1: the window of the top-left pixel is the
\* 2x2 block {(0,0), (1,0), (0,1), (1,1)}, averaged over 4 pixels.
C6_Witness ==
    /\ W = 4 /\ H = 4 /\ R = 1
    /\ \A p \in Pixels : ImageGetPixel(img_in, p[1], p[2], p[3]) = 10 * p[1] + p[2]
    /\ <<0, 0>> \in DOMAIN win
    /\ win[<<0, 0>>] = [x_min |-> 0, x_max |-> 1, y_min |-> 0, y_max |-> 1, pixels |-> 4]
    /\ WindowPixels(win[<<0, 0>>]) = {<<0, 0>>, <<1, 0>>, <<0, 1>>, <<1, 1>>}

\* C7 (uniform image is a fixed point): when all pixels of a channel hold the
\* same value v, every output pixel of that channel is v, for every R >= 0.
C7_UniformFixedPoint ==
    (pc = "done" /\ R >= 0) =>
        \A chan \in Colors : \A v \in 0..UCharMax :
            (\A p \in Image : ImageGetPixel(img_in, p[1], p[2], chan) = v)
            => (\A p \in Image : file_out.data[<<p[1], p[2], chan>>] = v)

RECURSIVE SeqPhase1(_, _, _, _)
\* The first loop nest run by one thread, from (row, col) on.
SeqPhase1(sums, chan, row, col) ==
    IF row >= H THEN sums
    ELSE IF col >= W THEN SeqPhase1(sums, chan, row + 1, 1)
    ELSE SeqPhase1(RowSum(sums, chan, row, col), chan, row, col + 1)

RECURSIVE SeqPhase2(_, _, _)
\* The second loop nest run by one thread, from (row, col) on.
SeqPhase2(sums, col, row) ==
    IF col >= W THEN sums
    ELSE IF row >= H THEN SeqPhase2(sums, col + 1, 1)
    ELSE SeqPhase2(ColSum(sums, row, col), col, row + 1)

\* The table of channel chan after a fully sequential run of both phases on
\* the memory malloc returned.
SeqTable(chan) == SeqPhase2(SeqPhase1(malloc(chan), chan, 0, 1), 0, 1)

\* C8 (schedule independence): whatever the team size and the interleaving of
\* the threads within each phase, the image written is the one the fully
\* sequential execution of the three loop nests produces from the same input.
C8_ScheduleIndependence ==
    pc = "done" =>
        LET tab == [chan \in Colors |-> SeqTable(chan)]
        IN  \A p \in Pixels :
                file_out.data[p] =
                    ToUChar(FloatDivTrunc(BoxSum(tab[p[3]], p[3], p[2], p[1]),
                                          pixels(p[2], p[1])), cvt)

\* A run of two threads on a 5x5 image: both threads own iterations of each
\* of the three loops, and the output is the sequential one.
C8_Witness ==
    /\ pc = "done" /\ nthreads = 2 /\ W = 5 /\ H = 5 /\ R = 1 /\ heap = 1
    /\ \A t \in Threads : \E i \in 0..4 : Owned(t, i)
    /\ \A p \in Pixels :
           file_out.data[p] =
               ToUChar(FloatDivTrunc(BoxSum(SeqTable(p[3]), p[3], p[2], p[1]),
                                     pixels(p[2], p[1])), cvt)

\* The radius argument is a non-negative decimal integer.
WellFormedRadius(s) == Len(s) >= 1 /\ \A i \in 1..Len(s) : IsDigit(s[i])

\* C9 (invocation errors are rejected): with a missing or malformed argument or
\* a negative radius the program is rejected before any computation: no table
\* cell is written, no pixel is computed, no output image is written, and the
\* process does not end with status 0.
C9_InvocationErrorsRejected ==
    (argc < 4 \/ ~WellFormedRadius(argv1)) =>
        /\ pc \in {"start", "crashed", "fatal"}
        /\ sums_r \in {NoTable, malloc(0)}
        /\ sums_g \in {NoTable, malloc(1)}
        /\ sums_b \in {NoTable, malloc(2)}
        /\ win = <<>>
        /\ file_out = NoFile

\* C10 (no overflow in the tables): int holds every value up to 255 * W * H, so
\* for every image no table cell wraps around while the tables are built.
C10_NoTableOverflow == big_wrapped = FALSE

\* C11 (no partial results): ImageWrite is called only after every averaging
\* task has finished, when every (row, col, channel) of the output image holds
\* its averaged value; a run that ends otherwise has written no output.
C11_NoPartialResults ==
    /\ pc \in {"write", "done"} =>
          /\ DOMAIN win = (0..(H - 1)) \X (0..(W - 1))
          /\ \A p \in Pixels :
                img_out.data[p] = ToUChar(Quotient(p[3], p[2], p[1]), cvt)
    /\ file_out # NoFile => pc = "done" /\ file_out = img_out
    /\ pc \in {"crashed", "fatal"} => file_out = NoFile

\* A run of two threads on the 5 x 5 gradient has written its output.
C11_Witness ==
    /\ pc = "done"
    /\ file_out # NoFile
    /\ nthreads = 2
    /\ W = 5
    /\ H = 5
    /\ R = 1

\* One of the three malloc calls of lines 66-68 has returned a null pointer.
AllocationFailed == argc >= 3 /\ pc # "start" /\ ~Alive(2)

\* C12 (allocation failure aborts): if the allocation of any of the three
\* tables fails, the run aborts before the first loop nest starts: no table
\* cell is written, no output pixel is computed and no output is written.
C12_AllocationFailureAborts ==
    AllocationFailed =>
        /\ \A color \in Colors : SumsColor(color) \in MallocResults(color)
        /\ \A p \in Pixels : img_out.data[p] = Unset
        /\ file_out = NoFile

\* The first loop nest is over and the second has not written yet.
Phase1Done == Alive(2) /\ pc = "phase2" /\ \A k \in Cells : wr2[k] = <<>>

\* C13 (Phase 1 result): when the first loop nest is over, in each channel
\* table[r][0] = pixel[r][0] and table[r][c] = pixel[r][c] + table[r][c - 1]
\* for c >= 1, the sum of the pixels of row r in columns 0..c.
C13_Phase1Result ==
    Phase1Done =>
        \A chan \in Colors, row \in 0..(H - 1) :
            /\ SumsColor(chan)[idx(row, 0, W, 1)] = ImageGetPixel(img_in, 0, row, chan)
            /\ \A col \in 1..(W - 1) :
                  /\ SumsColor(chan)[idx(row, col, W, 1)] =
                        ImageGetPixel(img_in, col, row, chan)
                        + SumsColor(chan)[idx(row, col - 1, W, 1)]
                  /\ SumsColor(chan)[idx(row, col, W, 1)] =
                        SumOf({row} \X (0..col), chan)

\* Every iteration of the first / second loop nest has been executed.
Phase1Finished == \A k \in Cells : k % W >= 1 => wr1[k] # <<>>

Phase2Finished == \A k \in Cells : k \div W >= 1 => wr2[k] # <<>>

\* An iteration of the second loop nest / of the averaging has been executed.
Phase2Touched == \E k \in DOMAIN wr2 : wr2[k] # <<>>

AveragingTouched ==
    \/ box # <<>>
    \/ pc = "crashed" /\ \E p \in DOMAIN img_out.data : img_out.data[p] # Unset

\* C14 (barrier ordering): no iteration of the second loop nest reads or
\* writes a table cell until every iteration of the first has finished, no
\* averaging iteration reads the table until every iteration of the second
\* has finished, and the three stages never overlap.
C14_BarrierOrdering ==
    /\ Phase2Touched => Phase1Finished /\ pc # "phase1"
    /\ AveragingTouched => Phase1Finished /\ Phase2Finished /\ pc \notin {"phase1", "phase2"}

\* Two threads are averaging the 5 x 5 image after both table-building loop
\* nests: each has stored a pixel and one is still at work.
C14_Witness ==
    /\ nthreads = 2
    /\ W = 5
    /\ H = 5
    /\ pc = "phase3"
    /\ Phase2Touched
    /\ \E t \in Threads : it[t].i < H
    /\ <<0, 0>> \in DOMAIN box
    /\ <<4, 0>> \in DOMAIN box

\* The threads that still have an iteration of the current loop nest to run.
Active == IF pc \in {"phase1", "phase3"} THEN {t \in Threads : it[t].i < H}
          ELSE IF pc = "phase2" THEN {t \in Threads : it[t].i < W}
          ELSE {}

\* The table coordinates the next iteration of thread t reads and writes, and
\* the output pixel it stores.
NextReads(t) ==
    IF pc = "phase1" THEN Phase1Reads(it[t].i, it[t].j)
    ELSE IF pc = "phase2" THEN Phase2Reads(it[t].j, it[t].i)
    ELSE CornerCoords(it[t].i, it[t].j)

NextWrites(t) ==
    IF pc = "phase1" THEN Phase1Writes(it[t].i, it[t].j)
    ELSE IF pc = "phase2" THEN Phase2Writes(it[t].j, it[t].i)
    ELSE {}

NextStores(t) == IF pc = "phase3" THEN {<<it[t].i, it[t].j>>} ELSE {}

\* Each thread works in its own rows (first loop nest) or columns (second),
\* and no two threads are about to access the same table cell or output
\* pixel with one of them writing.
OwnRowsAndColumns ==
    /\ \A t \in Active :
          /\ Owned(t, it[t].i)
          /\ pc = "phase1" =>
                \A p \in NextReads(t) \cup NextWrites(t) : Owned(t, p[1])
          /\ pc = "phase2" =>
                \A p \in NextReads(t) \cup NextWrites(t) : Owned(t, p[2])
    /\ \A t \in Active, u \in Active :
          t # u => /\ NextWrites(t) \cap (NextReads(u) \cup NextWrites(u)) = {}
                   /\ NextStores(t) \cap NextStores(u) = {}
    /\ \A k \in DOMAIN wr1 :
          /\ \A m \in DOMAIN wr1[k] : Owned(wr1[k][m], k \div W)
          /\ \A m \in DOMAIN wr2[k] : Owned(wr2[k][m], k % W)

\* The number of writes the finished loop nests have made to each cell.
WrittenOnceEverywhere ==
    /\ Alive(2) /\ pc \in {"phase2", "phase3", "write", "done"} =>
          \A k \in Cells : Len(wr1[k]) = 1
    /\ Alive(2) /\ pc \in {"phase3", "write", "done"} =>
          \A k \in Cells : Len(wr2[k]) = 1

WrittenOnceWhereLooped ==
    /\ \A k \in DOMAIN wr1 : Len(wr1[k]) <= 1 /\ Len(wr2[k]) <= 1
    /\ Alive(2) /\ pc \in {"phase2", "phase3", "write", "done"} =>
          \A k \in Cells : Len(wr1[k]) = IF k % W >= 1 THEN 1 ELSE 0
    /\ Alive(2) /\ pc \in {"phase3", "write", "done"} =>
          \A k \in Cells : Len(wr2[k]) = IF k \div W >= 1 THEN 1 ELSE 0

\* A step taken during the averaging leaves the three tables as they are.
AveragingKeepsTables == pc = "phase3" => UNCHANGED <<sums_r, sums_g, sums_b>>

PrefixTable(chan) == [k \in Cells |-> SumOf(Prefix(k \div W, k % W), chan)]

\* The averaging stage entered with tables that are summed-area tables, for
\* every radius 0..MaxR, input, image size and team size; no loop nest of
\* such a run has written a cell.
InitExact ==
    /\ BigIdle
    /\ \E r \in 0..MaxR, input \in 0..MaxInput, w \in 1..MaxW, h \in 1..MaxH,
          n \in 1..MaxThreads :
            /\ argc = 4
            /\ argv1 = <<DigitChars[r + 1]>>
            /\ img_in = InputImage(input, w, h)
            /\ nthreads = n
            /\ heap = input
            /\ cvt = Unknown
            /\ outside = Unknown
            /\ pc = "phase3"
            /\ R = atoi(argv1)
            /\ img_out = ImageCreate(w, h)
            /\ sums_r = PrefixTable(0)
            /\ sums_g = PrefixTable(1)
            /\ sums_b = PrefixTable(2)
            /\ it = Fork(H, 0, W)
            /\ win = <<>>
            /\ file_out = NoFile
            /\ wr1 = [k \in Cells |-> <<>>]
            /\ wr2 = [k \in Cells |-> <<>>]
            /\ uninit = {}
            /\ oob = {}
            /\ box = <<>>

NextExact ==
    \/ \E t \in Threads : BlurStep(t)
    \/ BlurEnd
    \/ Finish

SpecExact == InitExact /\ [][NextExact]_vars

\* C16 (inclusion-exclusion is exact): when the tables are summed-area tables,
\* for every pixel, channel and R >= 0 the value d - (b + c - a) of the
\* averaging stage (a, b, c being 0 at the top and left edges) is the sum of
\* the input channel over the clamped window.
C16_InclusionExclusionExact ==
    pc = "write" =>
        /\ DOMAIN box = (0..(H - 1)) \X (0..(W - 1))
        /\ \A k \in DOMAIN box : \A chan \in Colors :
              box[k][chan] = SumOf(ClampedSquare(k[1], k[2]), chan)

\* The averaging of the 5 x 5 gradient with R = 1 is over: the pixel at row 2,
\* column 2 used all four corners, its red sum is that of the nine pixels
\* around it.
C16_Witness ==
    /\ pc = "write"
    /\ W = 5
    /\ H = 5
    /\ R = 1
    /\ heap = 1
    /\ win[<<2, 2>>].x_min = 1
    /\ win[<<2, 2>>].y_min = 1
    /\ box[<<2, 2>>][0] = 9 * (10 * 2 + 2)

\* C17 (no read of an unwritten table cell): every table cell read by a loop
\* nest has been assigned by the program since the allocation; in particular
\* table[r][0] is assigned before the first loop nest reads it.
C17_NoReadOfUnwrittenCell == uninit = {}

\* C18 (in-bounds access): for every image and every R >= 0, every table index
\* used by the three loop nests, the corners a, b, c, d included, and every
\* pixel coordinate given to ImageGetPixel and ImageSetPixel satisfies
\* 0 <= row < H and 0 <= col < W.
C18_InBoundsAccess == R >= 0 => oob = {}

\* A run of two threads with R = 2 on the 5 x 5 gradient is over, every pixel
\* averaged with its window clamped at an edge.
C18_Witness ==
    /\ pc = "done"
    /\ R = 2
    /\ W = 5
    /\ H = 5
    /\ nthreads = 2
    /\ heap = 1
    /\ DOMAIN box = (0..(H - 1)) \X (0..(W - 1))
    /\ oob = {}

\* C19 (in-range truncated result): for every pixel, channel and R >= 0 the
\* windowed sum of the averaging stage satisfies 0 <= sum <= 255 * pixel_count
\* with pixel_count >= 1, so the quotient truncated toward zero is in 0..255
\* and is the value stored in the output.
C19_InRangeTruncatedResult ==
    R >= 0 =>
        \A k \in DOMAIN box : \A chan \in Colors :
            /\ win[k].pixels >= 1
            /\ 0 <= box[k][chan]
            /\ box[k][chan] <= UCharMax * win[k].pixels
            /\ img_out.data[<<k[2], k[1], chan>>] = box[k][chan] \div win[k].pixels
            /\ img_out.data[<<k[2], k[1], chan>>] \in 0..UCharMax

====
